---- MODULE Spec2Model ----
(***************************************************************************)
(* A model of simulator/sim.py: the int8 fixed-point simulator of a        *)
(* convolution layer (ConvLayer) and a fully connected layer (FcLayer),    *)
(* the SimData value they consume and produce, the binary loaders and the  *)
(* float -> int8 quantizer.                                                *)
(*                                                                         *)
(* Tensors are records [shape, data]: shape is the tuple of dimensions and *)
(* data a function from 0-based index tuples to numbers, as numpy indexes  *)
(* them.  Files are sequences of int8 values.  All tensor elements of the  *)
(* model are integers: the binary loaders only ever store integer-valued   *)
(* float32, on which np.round is the identity.                             *)
(***************************************************************************)
EXTENDS Integers, Sequences, FiniteSets, TLC

\* ------------------------------------------------------------------------
\* Bounds of the model
\* ------------------------------------------------------------------------

\* Largest weight exponent q passed to load_weights_from_binary.
MaxWeightQ == 1

\* Largest output exponent output_q passed to forward.
MaxOutputQ == 1

\* Largest input exponent q of a SimData handed to forward.
MaxInputQ == 1

\* A binary file holds between expected_size - MaxFileSlack and
\* expected_size + MaxFileSlack values.
MaxFileSlack == 1

\* ------------------------------------------------------------------------
\* Machine integers (numpy int8 / int32)
\* ------------------------------------------------------------------------

INT32_MAX == 2147483647

INT32_MIN == -INT32_MAX - 1

Int32 == INT32_MIN..INT32_MAX

\* x + y of two np.int32 values: the exact sum reduced modulo 2^32 into the
\* int32 range (numpy wraps, with a RuntimeWarning).  Written so that no
\* intermediate value leaves the int32 range.
Add32(x, y) ==
    IF x > 0 /\ y > INT32_MAX - x
    THEN (x + INT32_MIN) + (y + INT32_MIN)
    ELSE IF x < 0 /\ y < INT32_MIN - x
         THEN (x - INT32_MIN) + (y - INT32_MIN)
         ELSE x + y

\* np.int32(a) * np.int32(b) for two int8 operands: |a * b| <= 128 * 128, so
\* the product is exact.
Mul8(a, b) == a * b

\* astype(np.int8) of an integer value: keep the low 8 bits.
AsInt8(v) == ((v + 128) % 256) - 128

\* The 32 bits of an int32 in two's complement, bit 0 the least significant.
Bits32(a) ==
    LET low == IF a < 0 THEN a - INT32_MIN ELSE a
    IN  [i \in 0..31 |-> IF i = 31 THEN (IF a < 0 THEN 1 ELSE 0)
                                   ELSE (low \div (2 ^ i)) % 2]

\* The int32 with the given 32 bits.
RECURSIVE LowValue(_, _)
LowValue(bits, i) ==
    IF i > 30 THEN 0 ELSE bits[i] * (2 ^ i) + LowValue(bits, i + 1)

FromBits32(bits) ==
    IF bits[31] = 1 THEN LowValue(bits, 0) + INT32_MIN ELSE LowValue(bits, 0)

\* RightShift with the vacated top bits filled with zeros (a logical shift).
RightShiftLogical(acc, s) ==
    IF s >= 0 /\ s <= 31
    THEN LET b == Bits32(acc)
         IN  FromBits32([i \in 0..31 |-> IF i + s <= 31 THEN b[i + s] ELSE 0])
    ELSE 0

\* acc >> requant_shift on an np.int32 accumulator (numpy's right_shift):
\* an arithmetic shift that moves every bit down by s places and refills
\* the top with the sign bit.  A shift count outside 0..31, a negative count
\* included, is not a C shift: numpy returns -1 for a negative accumulator
\* and 0 otherwise.
RightShift(acc, s) ==
    IF s >= 0 /\ s <= 31
    THEN LET b == Bits32(acc)
         IN  FromBits32([i \in 0..31 |-> IF i + s <= 31 THEN b[i + s] ELSE b[31]])
    ELSE IF acc < 0 THEN -1 ELSE 0

\* np.clip(v, lo, hi)
Clip(v, lo, hi) == IF v < lo THEN lo ELSE IF v > hi THEN hi ELSE v

\* Requantize rounding to nearest: half of the divisor is added before the shift.
RequantizeRounding(acc, requant_shift) ==
    Clip(RightShift(IF requant_shift >= 1 /\ requant_shift <= 31
                    THEN Add32(acc, 2 ^ (requant_shift - 1))
                    ELSE acc,
                    requant_shift),
         -127, 127)

\* The requantization step of both kernels (lines 346-350, 513-517): shift,
\* then clip to [-127, 127].
Requantize(acc, requant_shift) == Clip(RightShift(acc, requant_shift), -127, 127)

\* ------------------------------------------------------------------------
\* Tensors, files and SimData
\* ------------------------------------------------------------------------

\* The index tuples of an array of the given shape (rank 2 or rank 4).
Indices(shape) ==
    IF Len(shape) = 2
    THEN (0..shape[1] - 1) \X (0..shape[2] - 1)
    ELSE (0..shape[1] - 1) \X (0..shape[2] - 1) \X (0..shape[3] - 1) \X (0..shape[4] - 1)

\* The number of elements of an array of the given shape.
RECURSIVE Size(_)
Size(shape) == IF shape = <<>> THEN 1 ELSE Head(shape) * Size(Tail(shape))

\* The values a pattern puts in a file or an array, by flat position.
\* "mixed" cycles through small, large and negative values of [-127, 127];
\* "m128" is the int8 value 0x80.
MixedCycle == <<3, -5, 127, 2, 0, -1, 64, -127>>

PatternValue(pat, i) ==
    CASE pat = "ones"  -> 1
      [] pat = "max"   -> 127
      [] pat = "min"   -> -127
      [] pat = "m128"  -> -128
      [] pat = "mixed" -> MixedCycle[(i % Len(MixedCycle)) + 1]

Patterns == {"ones", "max", "min", "m128", "mixed"}

\* The patterns of the arrays handed to forward.
InputPatterns == {"ones", "max", "m128", "mixed"}

\* np.fromfile(file_path, dtype=np.int8): the file's values in order.
FileOf(pat, n) == [i \in 1..n |-> PatternValue(pat, i - 1)]

\* flat.reshape(shape): element [i1, .., in] is the flat value at the row-major
\* (C order) offset of the index.
FlatOffset(shape, idx) ==
    IF Len(shape) = 2
    THEN idx[1] * shape[2] + idx[2]
    ELSE ((idx[1] * shape[2] + idx[2]) * shape[3] + idx[3]) * shape[4] + idx[4]

Reshape(flat, shape) ==
    [shape |-> shape,
     data  |-> [idx \in Indices(shape) |-> flat[FlatOffset(shape, idx) + 1]]]

\* SimData(data, q): lines 4-13.
SimData(data, q) == [data |-> data, q |-> q, scale |-> 2 ^ q]

\* The value of `ret` when a call raised and returned nothing.
NoData == [data |-> [shape |-> <<>>, data |-> <<>>], q |-> 0, scale |-> 1]

Returned(value) == [exc |-> "none", value |-> value]

Raised(exc) == [exc |-> exc, value |-> NoData]

\* ------------------------------------------------------------------------
\* ConvLayer
\* ------------------------------------------------------------------------

\* ConvLayer.__init__.  The weights start as np.random.randn(..) * 0.01,
\* values that np.round takes to 0: the model holds them rounded.
ConvLayerInit(input_channels, output_channels, kernel_size, stride, padding) ==
    [kind            |-> "conv",
     input_channels  |-> input_channels,
     output_channels |-> output_channels,
     kernel_size     |-> kernel_size,
     stride          |-> stride,
     padding         |-> padding,
     weights         |-> Reshape([i \in 1..(output_channels * input_channels
                                            * kernel_size * kernel_size) |-> 0],
                                 <<output_channels, input_channels,
                                   kernel_size, kernel_size>>),
     bias            |-> [oc \in 0..output_channels - 1 |-> 0],
     weight_q        |-> 0,
     weight_scale    |-> 1]

\* np.pad(input_int8, ((0,0),(0,0),(p,p),(p,p)), mode='constant'): p rows and
\* columns of zeros on each spatial side.
Pad(t, p) ==
    LET shape == <<t.shape[1], t.shape[2], t.shape[3] + 2 * p, t.shape[4] + 2 * p>>
    IN  [shape |-> shape,
         data  |-> [idx \in Indices(shape) |->
                      IF /\ idx[3] >= p /\ idx[3] < p + t.shape[3]
                         /\ idx[4] >= p /\ idx[4] < p + t.shape[4]
                      THEN t.data[<<idx[1], idx[2], idx[3] - p, idx[4] - p>>]
                      ELSE 0]]

\* np.round(x).astype(np.int8) of a tensor of integer values.
ToInt8Tensor(t) == [shape |-> t.shape, data |-> [idx \in DOMAIN t.data |-> AsInt8(t.data[idx])]]

\* ConvOutSize with the padding counted on one side only.
ConvOutSizeOneSidedPadding(in_size, kernel_size, padding, stride) ==
    (in_size - kernel_size + padding) \div stride + 1

\* out_height / out_width of forward (lines 310-311): Python's // floors.
ConvOutSize(in_size, kernel_size, padding, stride) ==
    (in_size - kernel_size + 2 * padding) \div stride + 1

\* ConvAccumulate reading the kernel transposed: weights_int8[oc, ic, kw, kh].
ConvAccumulateTransposed(input_int8, weights_int8, bias_int8, in_channels, kernel_size, b, oc, h_start, w_start) ==
    LET kk == kernel_size * kernel_size
        n_terms == in_channels * kk
        acc[n \in 0..n_terms] ==
            IF n = 0 THEN 0
            ELSE LET ic == (n - 1) \div kk
                     kh == ((n - 1) % kk) \div kernel_size
                     kw == (n - 1) % kernel_size
                     inp_val == input_int8.data[<<b, ic, h_start + kh, w_start + kw>>]
                     weight_val == weights_int8.data[<<oc, ic, kw, kh>>]
                 IN  Add32(acc[n - 1], Mul8(inp_val, weight_val))
    IN  Add32(acc[n_terms], bias_int8[oc])

\* The accumulator of one output element (lines 334-344): the products are
\* added one by one in the order ic, kh, kw of the loops, then the bias.
ConvAccumulate(input_int8, weights_int8, bias_int8, in_channels, kernel_size, b, oc, h_start, w_start) ==
    LET kk == kernel_size * kernel_size
        n_terms == in_channels * kk
        acc[n \in 0..n_terms] ==
            IF n = 0 THEN 0
            ELSE LET ic == (n - 1) \div kk
                     kh == ((n - 1) % kk) \div kernel_size
                     kw == (n - 1) % kernel_size
                     inp_val == input_int8.data[<<b, ic, h_start + kh, w_start + kw>>]
                     weight_val == weights_int8.data[<<oc, ic, kh, kw>>]
                 IN  Add32(acc[n - 1], Mul8(inp_val, weight_val))
    IN  Add32(acc[n_terms], bias_int8[oc])

\* ConvLayer.forward (lines 288-352).
ConvForward(self, input_simdata, output_q) ==
    LET input_data == input_simdata.data
        input_q == input_simdata.q
        requant_shift == input_q + self.weight_q - output_q
    IN  IF Len(input_data.shape) # 4
        THEN Raised("ValueError")      \* the shape does not unpack to 4 names
        ELSE
        LET batch_size == input_data.shape[1]
            in_channels == input_data.shape[2]
            in_height == input_data.shape[3]
            in_width == input_data.shape[4]
            out_height == ConvOutSize(in_height, self.kernel_size, self.padding, self.stride)
            out_width == ConvOutSize(in_width, self.kernel_size, self.padding, self.stride)
            input_int8 == IF self.padding > 0
                          THEN Pad(ToInt8Tensor(input_data), self.padding)
                          ELSE ToInt8Tensor(input_data)
            weights_int8 == ToInt8Tensor(self.weights)
            bias_int8 == self.bias
            out_shape == <<batch_size, self.output_channels, out_height, out_width>>
        IN  IF out_height < 0 \/ out_width < 0
            THEN Raised("ValueError")  \* np.zeros: negative dimensions
            ELSE IF /\ Size(out_shape) > 0
                    /\ in_channels > self.input_channels
            THEN Raised("IndexError")  \* weights_int8[oc, ic, ..] with ic out of bounds
            ELSE Returned(SimData(
                   [shape |-> out_shape,
                    data  |-> [idx \in Indices(out_shape) |->
                                 Requantize(
                                   ConvAccumulate(input_int8, weights_int8, bias_int8,
                                                  in_channels, self.kernel_size,
                                                  idx[1], idx[2],
                                                  idx[3] * self.stride,
                                                  idx[4] * self.stride),
                                   requant_shift)]],
                   output_q))

\* ------------------------------------------------------------------------
\* FcLayer
\* ------------------------------------------------------------------------

\* FcLayer.__init__, the weights held rounded as for ConvLayer.
FcLayerInit(input_size, output_size) ==
    [kind         |-> "fc",
     input_size   |-> input_size,
     output_size  |-> output_size,
     weights      |-> Reshape([i \in 1..(output_size * input_size) |-> 0],
                              <<output_size, input_size>>),
     bias         |-> [o \in 0..output_size - 1 |-> 0],
     weight_q     |-> 0,
     weight_scale |-> 1]

\* FlattenBatch walking the first axis fastest (column-major order).
FlattenBatchColumnMajor(t) ==
    LET C == t.shape[2]
        H == t.shape[3]
        W == t.shape[4]
        shape == <<t.shape[1], C * H * W>>
    IN  [shape |-> shape,
         data  |-> [idx \in Indices(shape) |->
                      t.data[<<idx[1],
                               idx[2] % C,
                               (idx[2] \div C) % H,
                               idx[2] \div (C * H)>>]]]

\* input_data.reshape(batch_size, -1) of a 4D array (line 483): numpy walks
\* the elements of each batch item in row-major order, the last axis fastest,
\* so feature i is the element whose (c, h, w) index unravels i.
FlattenBatch(t) ==
    LET C == t.shape[2]
        H == t.shape[3]
        W == t.shape[4]
        shape == <<t.shape[1], C * H * W>>
    IN  [shape |-> shape,
         data  |-> [idx \in Indices(shape) |->
                      t.data[<<idx[1],
                               idx[2] \div (H * W),
                               (idx[2] % (H * W)) \div W,
                               idx[2] % W>>]]]

\* The accumulator of one output feature (lines 505-511).
FcAccumulate(input_int8, weights_int8, bias_int8, input_size, b, o) ==
    LET acc[n \in 0..input_size] ==
            IF n = 0 THEN 0
            ELSE Add32(acc[n - 1],
                       Mul8(input_int8.data[<<b, n - 1>>], weights_int8.data[<<o, n - 1>>]))
    IN  Add32(acc[input_size], bias_int8[o])

\* FcLayer.forward (lines 464-519).
FcForward(self, input_simdata, output_q) ==
    LET input_data == IF Len(input_simdata.data.shape) = 4
                      THEN FlattenBatch(input_simdata.data)
                      ELSE input_simdata.data
        input_q == input_simdata.q
        batch_size == input_data.shape[1]
        requant_shift == input_q + self.weight_q - output_q
        input_int8 == ToInt8Tensor(input_data)
        weights_int8 == ToInt8Tensor(self.weights)
        bias_int8 == self.bias
        out_shape == <<batch_size, self.output_size>>
    IN  IF /\ Size(out_shape) > 0
           /\ input_data.shape[2] < self.input_size
        THEN Raised("IndexError")      \* input_int8[b, i] with i out of bounds
        ELSE Returned(SimData(
               [shape |-> out_shape,
                data  |-> [idx \in Indices(out_shape) |->
                             Requantize(
                               FcAccumulate(input_int8, weights_int8, bias_int8,
                                            self.input_size, idx[1], idx[2]),
                               requant_shift)]],
               output_q))

\* ------------------------------------------------------------------------
\* Binary loaders
\* ------------------------------------------------------------------------

\* expected_size of load_weights_from_binary (lines 230, 406).
ExpectedWeights(self) ==
    IF self.kind = "conv"
    THEN self.output_channels * self.input_channels * self.kernel_size * self.kernel_size
    ELSE self.output_size * self.input_size

\* The shape the loaded weights are given (lines 238, 414).
WeightShape(self) ==
    IF self.kind = "conv"
    THEN <<self.output_channels, self.input_channels, self.kernel_size, self.kernel_size>>
    ELSE <<self.output_size, self.input_size>>

\* WeightsFileAccepted taking any file that is long enough.
WeightsFileLongEnough(self, weights_flat) == Len(weights_flat) >= ExpectedWeights(self)

\* Whether load_weights_from_binary accepts the file (lines 231, 407).
WeightsFileAccepted(self, weights_flat) == Len(weights_flat) = ExpectedWeights(self)

\* The layer after load_weights_from_binary(file, q) (lines 214-245, 390-421):
\* a file of the wrong size raises before anything is assigned.
LoadWeightsFromBinary(self, weights_flat, q) ==
    IF ~WeightsFileAccepted(self, weights_flat)
    THEN self
    ELSE [self EXCEPT !.weights = Reshape(weights_flat, WeightShape(self)),
                      !.weight_q = q,
                      !.weight_scale = 2 ^ q]

\* SimData.load_data_from_binary (lines 64-102).
LoadDataFromBinary(data_flat, n_channels, height, width, q) ==
    IF Len(data_flat) # n_channels * height * width
    THEN Raised("ValueError")
    ELSE LET chw == Reshape(data_flat, <<1, n_channels, height, width>>)
         IN  Returned(SimData(chw, q))

\* ------------------------------------------------------------------------
\* The program: one layer object, its caller and the calls made on it
\* ------------------------------------------------------------------------

VARIABLES
    layer,   \* the ConvLayer or FcLayer object
    pc,      \* "idle": the caller may make a call; "returned": a call has ended
    call,    \* the last call: its name and arguments
    ret      \* what the last call returned or raised

vars == <<layer, pc, call, ret>>

\* The layers the caller constructs.
ConvLayers ==
    { ConvLayerInit(1, 1, 3, 1, 0),
      ConvLayerInit(2, 2, 2, 2, 1),
      ConvLayerInit(1, 1, 5, 1, 2),
      ConvLayerInit(1, 1, 3, 2, 1) }

FcLayers == { FcLayerInit(4, 2), FcLayerInit(12, 1) }

\* The shapes of the arrays the caller hands to forward.
InputShapes ==
    { <<1, 1, 3, 3>>, <<1, 2, 3, 4>>, <<2, 1, 4, 3>>, <<1, 3, 2, 2>>,
      <<1, 1, 32, 5>>, <<1, 1, 16, 3>>, <<1, 1, 8, 3>>,
      <<1, 1, 2, 2>>, <<1, 1, 1, 4>>,
      <<1, 4>>, <<2, 3>>, <<1, 5>> }

\* The [n_channels, height, width] the caller declares to load_data_from_binary.
DataDims == { <<1, 3, 3>>, <<2, 2, 2>>, <<4, 1, 1>> }

\* The bias values the caller stores in the layer (every entry alike).
BiasValues == {0, -300}

InputQs == 0..MaxInputQ

WeightQs == 0..MaxWeightQ

OutputQs == 0..MaxOutputQ

\* An input SimData of the given shape filled by a pattern.
InputOf(shape, pat, q) == SimData(Reshape(FileOf(pat, Size(shape)), shape), q)

\* File lengths around the expected one.
FileLengths(expected) ==
    { n \in (expected - MaxFileSlack)..(expected + MaxFileSlack) : n >= 0 }

\* No earlier call is remembered.
NoEarlier == [set |-> FALSE, input |-> NoData, output_q |-> 0,
              ret |-> Raised("none"), between |-> FALSE]

\* No kernel is running.
NoKernel == [pending |-> {}, workers |-> <<>>, order |-> <<>>, overlapped |-> FALSE]

NoCall == [op |-> "none", input |-> NoData, output_q |-> 0,
           file |-> <<>>, q |-> 0, dims |-> <<0, 0, 0>>,
           acc |-> 0, requant_shift |-> 0,
           data |-> <<>>, scale |-> [given |-> FALSE, value |-> [num |-> 1, den |-> 1]],
           quantized_data |-> <<>>, earlier |-> NoEarlier,
           kernel |-> NoKernel]

Init ==
    /\ layer \in ConvLayers \cup FcLayers
    /\ pc = "idle"
    /\ call = NoCall
    /\ ret = Raised("none")

\* layer.forward(input_simdata, output_q) on a ConvLayer.
ConvLayerForward(input_simdata, output_q) ==
    /\ pc = "idle"
    /\ layer.kind = "conv"
    /\ call' = [NoCall EXCEPT !.op = "forward", !.input = input_simdata,
                              !.output_q = output_q]
    /\ ret' = ConvForward(layer, input_simdata, output_q)
    /\ pc' = "returned"
    /\ UNCHANGED layer

\* layer.forward(input_simdata, output_q) on an FcLayer.
FcLayerForward(input_simdata, output_q) ==
    /\ pc = "idle"
    /\ layer.kind = "fc"
    /\ call' = [NoCall EXCEPT !.op = "forward", !.input = input_simdata,
                              !.output_q = output_q]
    /\ ret' = FcForward(layer, input_simdata, output_q)
    /\ pc' = "returned"
    /\ UNCHANGED layer

\* layer.load_weights_from_binary(file_path, q), ConvLayer or FcLayer.
LayerLoadWeightsFromBinary(weights_flat, q) ==
    /\ pc = "idle"
    /\ call' = [NoCall EXCEPT !.op = "load_weights", !.file = weights_flat, !.q = q]
    /\ layer' = LoadWeightsFromBinary(layer, weights_flat, q)
    /\ ret' = IF WeightsFileAccepted(layer, weights_flat)
              THEN Returned(NoData)
              ELSE Raised("ValueError")
    /\ pc' = "returned"

\* SimData.load_data_from_binary(file_path, n_channels, height, width, q).
SimDataLoadDataFromBinary(data_flat, dims, q) ==
    /\ pc = "idle"
    /\ call' = [NoCall EXCEPT !.op = "load_data", !.file = data_flat, !.q = q,
                              !.dims = dims]
    /\ ret' = LoadDataFromBinary(data_flat, dims[1], dims[2], dims[3], q)
    /\ pc' = "returned"
    /\ UNCHANGED layer

\* The caller assigns layer.bias (the attribute of lines 183 and 359; no
\* method of the layer writes it).
SetBias(v) ==
    /\ pc = "idle"
    /\ layer.bias # [o \in DOMAIN layer.bias |-> v]
    /\ layer' = [layer EXCEPT !.bias = [o \in DOMAIN layer.bias |-> v]]
    /\ UNCHANGED <<pc, call, ret>>

\* The caller takes the result of the call and goes on.
Continue ==
    /\ pc = "returned"
    /\ pc' = "idle"
    /\ call' = NoCall
    /\ ret' = Raised("none")
    /\ UNCHANGED layer

Next ==
    \/ \E shape \in InputShapes, pat \in InputPatterns, q \in InputQs, output_q \in OutputQs :
          ConvLayerForward(InputOf(shape, pat, q), output_q)
    \/ \E shape \in InputShapes, pat \in InputPatterns, q \in InputQs, output_q \in OutputQs :
          FcLayerForward(InputOf(shape, pat, q), output_q)
    \/ \E pat \in Patterns, n \in FileLengths(ExpectedWeights(layer)), q \in WeightQs :
          LayerLoadWeightsFromBinary(FileOf(pat, n), q)
    \/ \E pat \in Patterns, dims \in DataDims, q \in InputQs :
          \E n \in FileLengths(dims[1] * dims[2] * dims[3]) :
             SimDataLoadDataFromBinary(FileOf(pat, n), dims, q)
    \/ \E v \in BiasValues : SetBias(v)
    \/ Continue

Spec == Init /\ [][Next]_vars

\* ------------------------------------------------------------------------
\* The requantization step on its own: accumulator values and shifts that
\* the small layers above do not produce
\* ------------------------------------------------------------------------

\* Accumulators -MaxSmallAcc..MaxSmallAcc are all tried.
MaxSmallAcc == 40

\* Shifts 0..MaxShift are tried; counts of 32 and more are among them.
MaxShift == 33

\* Accumulators around the points where the shifted value crosses the clamp
\* bounds, and the ends of the int32 range.
BoundaryAccs ==
    UNION { { 127 * (2 ^ k), 127 * (2 ^ k) + (2 ^ k) - 1, 128 * (2 ^ k), 128 * (2 ^ k) - 1,
              -127 * (2 ^ k), -127 * (2 ^ k) - 1, -128 * (2 ^ k), -128 * (2 ^ k) + 1,
              -126 * (2 ^ k) - 1 } : k \in 0..23 }
    \cup { INT32_MAX, INT32_MAX - 1, INT32_MIN, INT32_MIN + 1 }

AccSamples == (-MaxSmallAcc..MaxSmallAcc) \cup BoundaryAccs

\* Lines 346-350 / 513-517 applied to one accumulator.
RequantizeStep(acc, requant_shift) ==
    /\ pc = "idle"
    /\ call' = [NoCall EXCEPT !.op = "requantize", !.acc = acc,
                              !.requant_shift = requant_shift]
    /\ ret' = [exc |-> "none", value |-> Requantize(acc, requant_shift)]
    /\ pc' = "returned"
    /\ UNCHANGED layer

RequantInit ==
    /\ layer = FcLayerInit(4, 2)
    /\ pc = "idle"
    /\ call = NoCall
    /\ ret = Raised("none")

RequantNext ==
    \/ \E acc \in AccSamples, requant_shift \in 0..MaxShift :
          RequantizeStep(acc, requant_shift)
    \/ Continue

SpecRequant == RequantInit /\ [][RequantNext]_vars

\* ------------------------------------------------------------------------
\* The quantizer: SimData.quantize_to_int8 on arrays of real numbers
\* ------------------------------------------------------------------------

\* A real number is held exactly, as the fraction num / den with den > 0
\* (the rounding of numpy's floating point is not modelled).
Real(num, den) == [num |-> num, den |-> den]

RMul(x, y) == Real(x.num * y.num, x.den * y.den)

\* x / y for y > 0.
RDiv(x, y) == Real(x.num * y.den, x.den * y.num)

RLess(x, y) == x.num * y.den < y.num * x.den

\* np.abs
RAbs(x) == Real(IF x.num < 0 THEN -x.num ELSE x.num, x.den)

\* np.max over the array.
RECURSIVE RMax(_)
RMax(xs) ==
    IF Len(xs) = 1 THEN xs[1]
    ELSE LET m == RMax(Tail(xs))
         IN  IF RLess(xs[1], m) THEN m ELSE xs[1]

\* np.clip(x, lo, hi) with integer bounds.
RClip(x, lo, hi) ==
    IF RLess(x, Real(lo, 1)) THEN Real(lo, 1)
    ELSE IF RLess(Real(hi, 1), x) THEN Real(hi, 1) ELSE x

\* The integer part of x, rounding toward zero (a cast without np.floor).
RTruncate(x) ==
    IF x.num < 0 THEN -((-x.num) \div x.den) ELSE x.num \div x.den

\* np.floor(x): the largest integer not above x.
RFloor(x) == x.num \div x.den

\* SimData.quantize_to_int8(data, scale) (lines 22-47); scale.given is FALSE
\* when the argument is omitted (None).
QuantizeToInt8(data, scale) ==
    LET data_max == RMax([i \in 1..Len(data) |-> RAbs(data[i])])
        used == IF ~scale.given
                THEN IF data_max.num = 0
                     THEN Real(1, 1)
                     ELSE RDiv(Real(127, 1), data_max)
                ELSE scale.value
        quantized == [i \in 1..Len(data) |->
                        AsInt8(RFloor(RClip(RMul(data[i], used), -127, 127)))]
    IN  [quantized |-> quantized, scale |-> used]

\* The greatest common divisor of two naturals, not both zero.
RECURSIVE GCD(_, _)
GCD(a, b) == IF b = 0 THEN a ELSE GCD(b, a % b)

\* The same real number in lowest terms.
RNorm(x) ==
    LET g == GCD(IF x.num < 0 THEN -x.num ELSE x.num, x.den)
    IN  Real(x.num \div g, x.den \div g)

\* x / y for any y # 0, in lowest terms.
RQuot(x, y) ==
    RNorm(IF y.num > 0
          THEN Real(x.num * y.den, x.den * y.num)
          ELSE Real(-(x.num * y.den), -(x.den * y.num)))

\* dequantize_from_int8 multiplying by the scale instead of dividing.
DequantizeMultiplying(quantized_data, scale) ==
    [i \in 1..Len(quantized_data) |-> RNorm(RMul(Real(quantized_data[i], 1), scale))]

\* SimData.dequantize_from_int8(quantized_data, scale) (lines 50-61): every
\* element, as a float, divided by the scale.
DequantizeFromInt8(quantized_data, scale) ==
    [i \in 1..Len(quantized_data) |-> RQuot(Real(quantized_data[i], 1), scale)]

\* The longest array handed to the quantizer.
MaxDataLen == 2

\* The real values the arrays hold.
RealSamples ==
    { Real(0, 1), Real(1, 2), Real(-1, 2), Real(1, 1), Real(-1, 1),
      Real(5, 2), Real(-5, 2), Real(-7, 4), Real(127, 1), Real(-127, 1),
      Real(255, 2), Real(-255, 2), Real(128, 1), Real(-128, 1),
      Real(300, 1), Real(-300, 1), Real(1, 100) }

DataSamples == UNION { [1..n -> RealSamples] : n \in 1..MaxDataLen }

\* The scale arguments: omitted, or one of a few positive and negative scales.
ScaleSamples ==
    { [given |-> FALSE, value |-> Real(1, 1)] }
    \cup { [given |-> TRUE, value |-> v] :
             v \in { Real(1, 1), Real(2, 1), Real(1, 2), Real(100, 1), Real(-1, 1),
                     Real(127, 3) } }

\* SimData.quantize_to_int8(data, scale).
QuantizeToInt8Step(data, scale) ==
    /\ pc = "idle"
    /\ call' = [NoCall EXCEPT !.op = "quantize", !.data = data, !.scale = scale]
    /\ ret' = [exc |-> "none", value |-> QuantizeToInt8(data, scale)]
    /\ pc' = "returned"
    /\ UNCHANGED layer

\* SimData.dequantize_from_int8 called with the array and the scale that the
\* quantize_to_int8 call just returned; call.data still holds the reals the
\* array was quantized from.
DequantizeFromInt8Step ==
    /\ pc = "returned"
    /\ call.op = "quantize"
    /\ call' = [call EXCEPT !.op = "dequantize",
                            !.quantized_data = ret.value.quantized,
                            !.scale = [given |-> TRUE, value |-> ret.value.scale]]
    /\ ret' = [exc |-> "none",
               value |-> DequantizeFromInt8(ret.value.quantized, ret.value.scale)]
    /\ UNCHANGED <<layer, pc>>

QuantInit ==
    /\ layer = FcLayerInit(4, 2)
    /\ pc = "idle"
    /\ call = NoCall
    /\ ret = Raised("none")

QuantNext ==
    \/ \E data \in DataSamples, scale \in ScaleSamples : QuantizeToInt8Step(data, scale)
    \/ DequantizeFromInt8Step
    \/ Continue

SpecQuant == QuantInit /\ [][QuantNext]_vars

\* ------------------------------------------------------------------------
\* The accumulator next to the ends of int32: biases that the layers above
\* are not given
\* ------------------------------------------------------------------------

\* The accumulators of a ConvLayer.forward call as they stand after line 344,
\* before the shift, one for each output element.
ConvAccumulators(self, input_simdata) ==
    LET input_data == input_simdata.data
        out_height == ConvOutSize(input_data.shape[3], self.kernel_size, self.padding, self.stride)
        out_width == ConvOutSize(input_data.shape[4], self.kernel_size, self.padding, self.stride)
        input_int8 == IF self.padding > 0
                      THEN Pad(ToInt8Tensor(input_data), self.padding)
                      ELSE ToInt8Tensor(input_data)
        out_shape == <<input_data.shape[1], self.output_channels, out_height, out_width>>
    IN  [idx \in Indices(out_shape) |->
           ConvAccumulate(input_int8, ToInt8Tensor(self.weights), self.bias,
                          input_data.shape[2], self.kernel_size, idx[1], idx[2],
                          idx[3] * self.stride, idx[4] * self.stride)]

\* The accumulators of an FcLayer.forward call as they stand after line 511,
\* before the shift, one for each output feature.
FcAccumulators(self, input_simdata) ==
    LET input_data == IF Len(input_simdata.data.shape) = 4
                      THEN FlattenBatch(input_simdata.data)
                      ELSE input_simdata.data
    IN  [idx \in Indices(<<input_data.shape[1], self.output_size>>) |->
           FcAccumulate(ToInt8Tensor(input_data), ToInt8Tensor(self.weights), self.bias,
                        self.input_size, idx[1], idx[2])]

\* The layers whose accumulators are followed.
AccumulatorLayers == {ConvLayerInit(1, 1, 3, 1, 0), FcLayerInit(4, 2)}

\* Values of np.round(self.bias).astype(np.int32): small ones, the ends of
\* int32, and the two values around the point where the nine products of a
\* 3x3 kernel, 127 * 127 each, no longer fit above the bias.
WideBiasValues ==
    {0, 1000, INT32_MAX, INT32_MIN, INT32_MAX - 9 * 127 * 127,
     INT32_MAX - 9 * 127 * 127 + 1}

\* Inputs and weight files with every element in [-127, 127].
InRangePatterns == {"ones", "max", "min", "mixed"}

AccumulatorInit ==
    /\ layer \in AccumulatorLayers
    /\ pc = "idle"
    /\ call = NoCall
    /\ ret = Raised("none")

AccumulatorNext ==
    \/ \E pat \in InRangePatterns, output_q \in OutputQs :
          ConvLayerForward(InputOf(<<1, 1, 3, 3>>, pat, 0), output_q)
    \/ \E shape \in {<<1, 4>>, <<1, 1, 2, 2>>}, pat \in InRangePatterns, output_q \in OutputQs :
          FcLayerForward(InputOf(shape, pat, 0), output_q)
    \/ \E pat \in InRangePatterns :
          LayerLoadWeightsFromBinary(FileOf(pat, ExpectedWeights(layer)), 0)
    \/ \E v \in WideBiasValues : SetBias(v)
    \/ Continue

SpecAccumulator == AccumulatorInit /\ [][AccumulatorNext]_vars

\* ------------------------------------------------------------------------
\* One layer reused over many forward calls: the objects that a call is
\* handed, as they stand before and after it
\* ------------------------------------------------------------------------

\* forward adding 1 to every bias of the layer as it goes.
SelfAfterForwardBiasRaised(self) ==
    [self EXCEPT !.bias = [o \in DOMAIN self.bias |-> self.bias[o] + 1]]

\* The layer after forward (lines 300-352, 477-519): no statement assigns an
\* attribute of self; self.weights and self.bias are only read, by the casts
\* of lines 315-316 and 496-497, which build new arrays.
SelfAfterForward(self) == self

\* The caller's input after forward: np.round(..).astype (lines 314, 495) and
\* np.pad (line 322) build new arrays, reshape (line 483) rebinds a local
\* name, and output_data is a new array (lines 319, 500).
InputAfterForward(input_simdata) == input_simdata

\* The layers reused, as they are after construction, before any weights are
\* loaded.
ReuseLayers == {ConvLayerInit(1, 1, 3, 1, 0), ConvLayerInit(1, 1, 3, 2, 1), FcLayerInit(4, 2)}

\* The input shapes handed to them; <<1, 5>> is no input of either layer.
ReuseShapes == {<<1, 1, 3, 3>>, <<1, 1, 2, 2>>, <<1, 4>>, <<1, 5>>}

ReusePatterns == {"ones", "mixed"}

\* The layer is constructed, its weights are loaded, its bias is set.
ReuseInit ==
    /\ \E l \in ReuseLayers, pat \in ReusePatterns, q \in WeightQs, v \in BiasValues :
          layer = [LoadWeightsFromBinary(l, FileOf(pat, ExpectedWeights(l)), q)
                     EXCEPT !.bias = [o \in DOMAIN l.bias |-> v]]
    /\ pc = "idle"
    /\ call = NoCall
    /\ ret = Raised("none")

\* The caller builds the SimData it is about to hand to forward.
ReusePrepare(input_simdata, output_q) ==
    /\ pc = "idle"
    /\ call' = [call EXCEPT !.op = "prepared", !.input = input_simdata,
                            !.output_q = output_q]
    /\ pc' = "prepared"
    /\ UNCHANGED <<layer, ret>>

\* The forward call has other arguments than the remembered one.
OtherThanEarlier ==
    call.earlier.set /\ <<call.input, call.output_q>> #
                           <<call.earlier.input, call.earlier.output_q>>

\* layer.forward(input_simdata, output_q) on a ConvLayer, with the objects it
\* was handed as the call leaves them.
ReuseConvLayerForward ==
    /\ pc = "prepared"
    /\ layer.kind = "conv"
    /\ ret' = ConvForward(layer, call.input, call.output_q)
    /\ layer' = SelfAfterForward(layer)
    /\ call' = [call EXCEPT !.op = "forward",
                            !.input = InputAfterForward(call.input),
                            !.earlier.between = @ \/ OtherThanEarlier]
    /\ pc' = "returned"

\* layer.forward(input_simdata, output_q) on an FcLayer, likewise.
ReuseFcLayerForward ==
    /\ pc = "prepared"
    /\ layer.kind = "fc"
    /\ ret' = FcForward(layer, call.input, call.output_q)
    /\ layer' = SelfAfterForward(layer)
    /\ call' = [call EXCEPT !.op = "forward",
                            !.input = InputAfterForward(call.input),
                            !.earlier.between = @ \/ OtherThanEarlier]
    /\ pc' = "returned"

\* The caller keeps the arguments and the result of the call to compare later
\* calls with.
ReuseRemember ==
    /\ pc = "returned"
    /\ call' = [NoCall EXCEPT !.earlier = [set |-> TRUE, input |-> call.input,
                                           output_q |-> call.output_q, ret |-> ret,
                                           between |-> FALSE]]
    /\ pc' = "idle"
    /\ ret' = Raised("none")
    /\ UNCHANGED layer

\* The caller drops the result and goes on.
ReuseContinue ==
    /\ pc = "returned"
    /\ call' = [NoCall EXCEPT !.earlier = call.earlier]
    /\ pc' = "idle"
    /\ ret' = Raised("none")
    /\ UNCHANGED layer

ReuseNext ==
    \/ \E shape \in ReuseShapes, pat \in ReusePatterns, q \in InputQs, output_q \in OutputQs :
          ReusePrepare(InputOf(shape, pat, q), output_q)
    \/ ReuseConvLayerForward
    \/ ReuseFcLayerForward
    \/ ReuseRemember
    \/ ReuseContinue

SpecReuse == ReuseInit /\ [][ReuseNext]_vars

\* ------------------------------------------------------------------------
\* One forward call whose output elements are computed by workers, each
\* running the body of the loops for one element at a time, in any order
\* and interleaved product by product
\* ------------------------------------------------------------------------

\* The number of workers.
MaxWorkers == 2

\* The accumulator carried over from the element the worker computed before.
AccCarriedOver(previous) == previous

\* acc = np.int32(0) (lines 334, 505): every element starts from 0, whatever
\* the variable held before.
FreshAcc(previous) == 0

\* The shape of output_data (lines 319, 500).
KernelOutShape(self, input_simdata) ==
    LET shape == input_simdata.data.shape
    IN  IF self.kind = "conv"
        THEN <<shape[1], self.output_channels,
               ConvOutSize(shape[3], self.kernel_size, self.padding, self.stride),
               ConvOutSize(shape[4], self.kernel_size, self.padding, self.stride)>>
        ELSE <<shape[1], self.output_size>>

\* The number of products one element accumulates (lines 335-337, 506).
KernelTerms(self, input_simdata) ==
    IF self.kind = "conv"
    THEN input_simdata.data.shape[2] * self.kernel_size * self.kernel_size
    ELSE self.input_size

\* The n-th product of the output element at idx, n = 1.. in the order of the
\* inner loops (lines 335-341, 506-508).
KernelProduct(self, input_simdata, idx, n) ==
    IF self.kind = "conv"
    THEN LET input_int8 == IF self.padding > 0
                           THEN Pad(ToInt8Tensor(input_simdata.data), self.padding)
                           ELSE ToInt8Tensor(input_simdata.data)
             weights_int8 == ToInt8Tensor(self.weights)
             kk == self.kernel_size * self.kernel_size
             ic == (n - 1) \div kk
             kh == ((n - 1) % kk) \div self.kernel_size
             kw == (n - 1) % self.kernel_size
         IN  Mul8(input_int8.data[<<idx[1], ic, idx[3] * self.stride + kh,
                                    idx[4] * self.stride + kw>>],
                  weights_int8.data[<<idx[2], ic, kh, kw>>])
    ELSE LET input_data == IF Len(input_simdata.data.shape) = 4
                           THEN FlattenBatch(input_simdata.data)
                           ELSE input_simdata.data
         IN  Mul8(AsInt8(input_data.data[<<idx[1], n - 1>>]),
                  AsInt8(self.weights.data[<<idx[2], n - 1>>]))

\* A worker between elements; acc is what its variable was left holding.
IdleWorker(acc) == [busy |-> FALSE, idx |-> <<>>, n |-> 0, acc |-> acc]

\* The layers of the kernel, with weights loaded and a bias set.
KernelLayers ==
    { [LoadWeightsFromBinary(l, FileOf("mixed", ExpectedWeights(l)), 0)
         EXCEPT !.bias = [o \in DOMAIN l.bias |-> v]] :
      l \in {ConvLayerInit(1, 2, 2, 1, 0), FcLayerInit(4, 2)}, v \in BiasValues }

\* The inputs of a layer that give four output elements.
KernelInputs(self) ==
    { InputOf(IF self.kind = "conv" THEN <<1, 1, 2, 3>> ELSE <<2, 4>>, pat, 0) :
      pat \in {"ones", "mixed"} }

KernelInit ==
    /\ layer \in KernelLayers
    /\ pc = "idle"
    /\ call = NoCall
    /\ ret = Raised("none")

\* forward is entered: the shift is fixed, output_data = np.zeros(..) (lines
\* 304-319, 489-500), and every output element waits to be computed.  Until
\* the call returns, ret holds output_data as filled so far.
KernelStart(input_simdata, output_q) ==
    /\ pc = "idle"
    /\ LET out_shape == KernelOutShape(layer, input_simdata)
       IN  /\ call' = [NoCall EXCEPT
                         !.op = "forward", !.input = input_simdata,
                         !.output_q = output_q,
                         !.kernel = [pending |-> Indices(out_shape),
                                     workers |-> [w \in 1..MaxWorkers |-> IdleWorker(0)],
                                     order |-> <<>>, overlapped |-> FALSE]]
           /\ ret' = Returned(SimData([shape |-> out_shape,
                                       data  |-> [idx \in Indices(out_shape) |-> 0]],
                                      output_q))
    /\ pc' = "running"
    /\ UNCHANGED layer

\* Worker w takes an element no worker has taken and starts its accumulator.
WorkerTake(w, idx) ==
    /\ pc = "running"
    /\ ~call.kernel.workers[w].busy
    /\ idx \in call.kernel.pending
    /\ call' = [call EXCEPT
                  !.kernel.pending = @ \ {idx},
                  !.kernel.workers[w] =
                      [busy |-> TRUE, idx |-> idx, n |-> 0, acc |-> FreshAcc(@.acc)],
                  !.kernel.overlapped =
                      @ \/ \E v \in DOMAIN call.kernel.workers :
                              v # w /\ call.kernel.workers[v].busy]
    /\ UNCHANGED <<layer, pc, ret>>

\* Worker w adds the next product of its element (lines 339-341, 508).
WorkerTerm(w) ==
    LET me == call.kernel.workers[w]
    IN  /\ pc = "running"
        /\ me.busy
        /\ me.n < KernelTerms(layer, call.input)
        /\ call' = [call EXCEPT
                      !.kernel.workers[w].n = me.n + 1,
                      !.kernel.workers[w].acc =
                          Add32(me.acc, KernelProduct(layer, call.input, me.idx, me.n + 1))]
        /\ UNCHANGED <<layer, pc, ret>>

\* Worker w adds the bias, shifts, clips and writes the element's slot of
\* output_data (lines 344-350, 511-517).
WorkerWrite(w) ==
    LET me == call.kernel.workers[w]
        acc == Add32(me.acc, layer.bias[me.idx[2]])
        requant_shift == call.input.q + layer.weight_q - call.output_q
    IN  /\ pc = "running"
        /\ me.busy
        /\ me.n = KernelTerms(layer, call.input)
        /\ ret' = [ret EXCEPT !.value.data.data[me.idx] = Requantize(acc, requant_shift)]
        /\ call' = [call EXCEPT !.kernel.workers[w] = IdleWorker(acc),
                                !.kernel.order = Append(@, me.idx)]
        /\ UNCHANGED <<layer, pc>>

\* Every element is written: forward returns SimData(output_data, output_q).
KernelReturn ==
    /\ pc = "running"
    /\ call.kernel.pending = {}
    /\ \A w \in DOMAIN call.kernel.workers : ~call.kernel.workers[w].busy
    /\ pc' = "returned"
    /\ UNCHANGED <<layer, call, ret>>

KernelNext ==
    \/ \E input_simdata \in KernelInputs(layer), output_q \in OutputQs :
          KernelStart(input_simdata, output_q)
    \/ \E w \in 1..MaxWorkers, idx \in call.kernel.pending : WorkerTake(w, idx)
    \/ \E w \in 1..MaxWorkers : WorkerTerm(w)
    \/ \E w \in 1..MaxWorkers : WorkerWrite(w)
    \/ KernelReturn
    \/ Continue

SpecKernel == KernelInit /\ [][KernelNext]_vars

\* ------------------------------------------------------------------------
\* What the claims speak of
\* ------------------------------------------------------------------------

\* The sum of the function f over the finite set S of its arguments.
RECURSIVE SumOver(_, _)
SumOver(f, S) ==
    IF S = {} THEN 0
    ELSE LET x == CHOOSE y \in S : TRUE
         IN  f[x] + SumOver(f, S \ {x})

\* clamp(v, -127, 127)
Clamp127(v) == IF v > 127 THEN 127 ELSE IF v < -127 THEN -127 ELSE v

\* Every element of the tensor is an integer of [-127, 127].
InSymmetricRange(t) == \A idx \in DOMAIN t.data : t.data[idx] \in -127..127

\* A forward call has ended (returned or raised) on a layer of the kind.
ForwardEnded(kind) == pc = "returned" /\ call.op = "forward" /\ layer.kind = kind

\* The shift the call's exponents give: input_q + weight_q - output_q.
CallShift == call.input.q + layer.weight_q - call.output_q

\* The input extended with zeros by `padding` on each spatial side, read at
\* row i and column j of the extended plane.
InPad(x, padding, b, ic, i, j) ==
    IF /\ i - padding \in 0..(x.shape[3] - 1)
       /\ j - padding \in 0..(x.shape[4] - 1)
    THEN x.data[<<b, ic, i - padding, j - padding>>]
    ELSE 0

\* The exact sum of products plus bias of output element [b, oc, oh, ow].
ConvExactSum(self, x, b, oc, oh, ow) ==
    LET taps == (0..self.input_channels - 1) \X (0..self.kernel_size - 1)
                   \X (0..self.kernel_size - 1)
        term == [t \in taps |->
                   InPad(x, self.padding, b, t[1],
                         oh * self.stride + t[2], ow * self.stride + t[3])
                   * self.weights.data[<<oc, t[1], t[2], t[3]>>]]
    IN  SumOver(term, taps) + self.bias[oc]

\* The scenario of C1 and C4: an all-ones 1x1x3x3 input, all-ones 1x1x3x3
\* weights, zero bias, stride 1, padding 0.
OnesScenario ==
    /\ ForwardEnded("conv")
    /\ layer.input_channels = 1 /\ layer.output_channels = 1
    /\ layer.kernel_size = 3 /\ layer.stride = 1 /\ layer.padding = 0
    /\ \A idx \in DOMAIN layer.weights.data : layer.weights.data[idx] = 1
    /\ \A oc \in DOMAIN layer.bias : layer.bias[oc] = 0
    /\ call.input.data.shape = <<1, 1, 3, 3>>
    /\ \A idx \in DOMAIN call.input.data.data : call.input.data.data[idx] = 1

\* The exponents of the call are input_q, weight_q and output_q.
Exponents(input_q, weight_q, output_q) ==
    call.input.q = input_q /\ layer.weight_q = weight_q /\ call.output_q = output_q

\* The call returned the 1x1x1x1 tensor holding v.
ReturnedSingle(v) ==
    /\ ret.exc = "none"
    /\ ret.value.data.shape = <<1, 1, 1, 1>>
    /\ DOMAIN ret.value.data.data = {<<0, 0, 0, 0>>}
    /\ ret.value.data.data[<<0, 0, 0, 0>>] = v

\* A ConvLayer.forward call the contract covers: a 4D input with the layer's
\* channel count, no output dimension negative, elements in [-127, 127].
ConvCallInContract ==
    /\ ForwardEnded("conv")
    /\ Len(call.input.data.shape) = 4
    /\ call.input.data.shape[2] = layer.input_channels
    /\ call.input.data.shape[3] + 2 * layer.padding >= layer.kernel_size
    /\ call.input.data.shape[4] + 2 * layer.padding >= layer.kernel_size
    /\ InSymmetricRange(call.input.data)
    /\ InSymmetricRange(layer.weights)

C4_OnesOutputQOne ==
    (OnesScenario /\ Exponents(0, 0, 1)) => ReturnedSingle(4)

\* C4 as amended: the all-ones 3x3 scenario with exponents whose shift
\* input_q + weight_q - output_q is 1 returns the single element 4, the
\* accumulator 9 shifted right by 1, tagged with output_q.
C4_OnesShiftedByOne ==
    (OnesScenario /\ CallShift = 1) =>
       ReturnedSingle(4) /\ ret.value.q = call.output_q

\* C4's case: the scenario has been run with input_q = 1, weight_q = 0 and
\* output_q = 0, a shift of 1.
C4_Witness == OnesScenario /\ Exponents(1, 0, 0) /\ ret.exc = "none"

\* n is floor(a / d) + 1 for d > 0, said without division.
IsFloorPlusOne(n, a, d) == (n - 1) * d <= a /\ a < n * d

\* C6: the output of a ConvLayer.forward call has shape [batch,
\* output_channels, H', W'], H' = floor((H - kernel_size + 2*padding) / stride)
\* + 1 and W' likewise; kernel 5, stride 1, padding 2 gives 32 for H = 32,
\* kernel 3, stride 2, padding 1 gives 8 for H = 16 and 4 for H = 8.
C6_ConvOutputShape ==
    (ForwardEnded("conv") /\ ret.exc = "none") =>
       LET in == call.input.data.shape
           out == ret.value.data.shape
       IN  /\ Len(out) = 4
           /\ out[1] = in[1]
           /\ out[2] = layer.output_channels
           /\ IsFloorPlusOne(out[3], in[3] - layer.kernel_size + 2 * layer.padding,
                             layer.stride)
           /\ IsFloorPlusOne(out[4], in[4] - layer.kernel_size + 2 * layer.padding,
                             layer.stride)
           /\ DOMAIN ret.value.data.data = Indices(out)
           /\ (layer.kernel_size = 5 /\ layer.stride = 1 /\ layer.padding = 2
               /\ in[3] = 32) => out[3] = 32
           /\ (layer.kernel_size = 3 /\ layer.stride = 2 /\ layer.padding = 1
               /\ in[3] = 16) => out[3] = 8
           /\ (layer.kernel_size = 3 /\ layer.stride = 2 /\ layer.padding = 1
               /\ in[3] = 8) => out[3] = 4

\* C6's case: stride 2 over H = 16, where the division is inexact.
C6_Witness ==
    /\ ForwardEnded("conv") /\ ret.exc = "none"
    /\ layer.kernel_size = 3 /\ layer.stride = 2 /\ layer.padding = 1
    /\ call.input.data.shape[3] = 16
    /\ ret.value.data.shape[3] = 8

\* floor(a / 2^s) for s >= 0, by halving s times: floor(floor(x) / 2) is
\* floor(x / 2).
RECURSIVE FloorDivPow2(_, _)
FloorDivPow2(a, s) == IF s = 0 THEN a ELSE FloorDivPow2(a \div 2, s - 1)

RequantizeEnded == pc = "returned" /\ call.op = "requantize"

\* C2: for every accumulator a and shift s >= 0, a >> s followed by the clip
\* is clamp(floor(a / 2^s), -127, 127): a negative a is floored (a = -5, s = 1
\* gives -3), a shifted value above 127 gives 127 and one below -127 gives
\* -127.
C2_ShiftThenClipIsFloorThenClamp ==
    RequantizeEnded =>
       LET a == call.acc
           s == call.requant_shift
           floored == FloorDivPow2(a, s)
       IN  /\ ret.value = Clamp127(floored)
           /\ (a = -5 /\ s = 1) => ret.value = -3
           /\ floored > 127 => ret.value = 127
           /\ floored < -127 => ret.value = -127

\* C2's case: a negative odd accumulator shifted by a positive count to a
\* value inside the clamp bounds.
C2_Witness ==
    /\ RequantizeEnded
    /\ call.acc = -5 /\ call.requant_shift = 1
    /\ ret.value = -3

\* The number of features of an FcLayer input: the second dimension of a 2D
\* input, channels * height * width of a 4D one.
FeatureCount(x) ==
    IF Len(x.shape) = 4 THEN x.shape[2] * x.shape[3] * x.shape[4] ELSE x.shape[2]

\* Feature i of batch item b: x[b, i] of a 2D input; of a 4D input the element
\* x[b, c, h, w] with c*H*W + h*W + w = i (channel-major, then row-major).
FeatureAt(x, b, i) ==
    IF Len(x.shape) = 4
    THEN LET H == x.shape[3]
             W == x.shape[4]
             chw == CHOOSE t \in (0..x.shape[2] - 1) \X (0..H - 1) \X (0..W - 1) :
                       t[1] * H * W + t[2] * W + t[3] = i
         IN  x.data[<<b, chw[1], chw[2], chw[3]>>]
    ELSE x.data[<<b, i>>]

\* The exact dot product plus bias of output [b, o].
FcExactSum(self, x, b, o) ==
    LET features == 0..self.input_size - 1
        term == [i \in features |-> FeatureAt(x, b, i) * self.weights.data[<<o, i>>]]
    IN  SumOver(term, features) + self.bias[o]

\* An FcLayer.forward call the contract covers: input_size features per batch
\* item, elements in [-127, 127].
FcCallInContract ==
    /\ ForwardEnded("fc")
    /\ FeatureCount(call.input.data) = layer.input_size
    /\ InSymmetricRange(call.input.data)
    /\ InSymmetricRange(layer.weights)

CallInContract == ConvCallInContract \/ FcCallInContract

\* The exact sum of products plus bias of the output element at idx.
ExactSum(idx) ==
    IF layer.kind = "conv"
    THEN ConvExactSum(layer, call.input.data, idx[1], idx[2], idx[3], idx[4])
    ELSE FcExactSum(layer, call.input.data, idx[1], idx[2])

\* C3: when the shift input_q + weight_q - output_q is negative, forward
\* returns the accumulator multiplied by 2^(-shift) and clamped to [-127, 127].
C3_NegativeShiftMultiplies ==
    (CallInContract /\ CallShift < 0) =>
       /\ ret.exc = "none"
       /\ \A idx \in DOMAIN ret.value.data.data :
             ret.value.data.data[idx] = Clamp127(ExactSum(idx) * (2 ^ (-CallShift)))

\* C7: every SimData that load_data_from_binary or forward returns has all of
\* its elements in [-127, 127].
C7_CreatedValuesInSymmetricRange ==
    (pc = "returned" /\ call.op \in {"forward", "load_data"} /\ ret.exc = "none") =>
       InSymmetricRange(ret.value.data)

\* The input of the forward call does not have the layer's declared
\* dimensions: the channel count of a ConvLayer, the feature count of an
\* FcLayer.
InputMismatch ==
    \/ /\ ForwardEnded("conv")
       /\ Len(call.input.data.shape) = 4
       /\ call.input.data.shape[2] # layer.input_channels
    \/ /\ ForwardEnded("fc")
       /\ FeatureCount(call.input.data) # layer.input_size

\* C8: a forward call whose input does not match the layer's declared
\* dimensions raises and returns no output.
C8_MismatchedInputRaises ==
    InputMismatch => (ret.exc # "none" /\ ret.value = NoData)

\* The number of int8 values the layer's declared dimensions call for.
DeclaredWeightCount(self) ==
    IF self.kind = "conv"
    THEN self.output_channels * self.input_channels * self.kernel_size * self.kernel_size
    ELSE self.output_size * self.input_size

\* C9: load_weights_from_binary on a file whose number of values differs from
\* the declared count, fewer or more, raises, and the layer's weights,
\* weight_q and weight_scale are then what they were before the call.
C9_WrongSizeLoadRaisesAndKeepsLayer ==
    [][ (pc = "idle" /\ call'.op = "load_weights"
         /\ Len(call'.file) # DeclaredWeightCount(layer)) =>
           /\ ret'.exc = "ValueError"
           /\ layer'.weights = layer.weights
           /\ layer'.weight_q = layer.weight_q
           /\ layer'.weight_scale = layer.weight_scale ]_vars

\* C9's case: a layer loaded with weights 127 and weight_q = 1 has refused a
\* longer file of ones given with q = 0, and still holds what it held.
C9_Witness ==
    /\ pc = "returned" /\ call.op = "load_weights"
    /\ ret.exc = "ValueError"
    /\ Len(call.file) > DeclaredWeightCount(layer)
    /\ call.file[1] = 1 /\ call.q = 0
    /\ layer.weight_q = 1 /\ layer.weight_scale = 2
    /\ \A idx \in DOMAIN layer.weights.data : layer.weights.data[idx] = 127

QuantizeEnded == pc = "returned" /\ call.op = "quantize"

\* The product data[i] * scale as a fraction num / den with den > 0.
ScaledNum(i) == call.data[i].num * ret.value.scale.num

ScaledDen(i) == call.data[i].den * ret.value.scale.den

\* r is floor(clamp(num / den, -127, 127)): the integer with r <= c < r + 1
\* for the clamped value c.
IsFloorOfClamped(r, num, den) ==
    IF num > 127 * den THEN r = 127
    ELSE IF num < -127 * den THEN r = -127
    ELSE r * den <= num /\ num < (r + 1) * den

\* C10: quantize_to_int8(data, scale) returns elementwise
\* floor(clamp(data * scale, -127, 127)) and the scale it used: the given one,
\* or when omitted 127 / max(|data|), or 1 when data is all zeros (the result
\* is then all zeros); every element is an integer of [-127, 127], and a
\* negative non-integer product is rounded toward minus infinity (-2.5 gives
\* -3).
C10_QuantizeFloorsClampedProduct ==
    QuantizeEnded =>
       LET used == ret.value.scale
           out == ret.value.quantized
           allZero == \A i \in DOMAIN call.data : call.data[i].num = 0
       IN  /\ used.den > 0
           /\ call.scale.given =>
                 used.num * call.scale.value.den = call.scale.value.num * used.den
           /\ (~call.scale.given /\ allZero) =>
                 /\ used.num = used.den
                 /\ \A i \in DOMAIN out : out[i] = 0
           /\ (~call.scale.given /\ ~allZero) =>
                 /\ used.num > 0
                 \* used * |data[i]| <= 127 for all i, with equality for some i
                 /\ \A i \in DOMAIN call.data :
                       /\ used.num * call.data[i].num <= 127 * used.den * call.data[i].den
                       /\ used.num * call.data[i].num >= -127 * used.den * call.data[i].den
                 /\ \E i \in DOMAIN call.data :
                       \/ used.num * call.data[i].num = 127 * used.den * call.data[i].den
                       \/ used.num * call.data[i].num = -127 * used.den * call.data[i].den
           /\ DOMAIN out = DOMAIN call.data
           /\ \A i \in DOMAIN out :
                 /\ out[i] \in -127..127
                 /\ IsFloorOfClamped(out[i], ScaledNum(i), ScaledDen(i))
                 /\ (2 * ScaledNum(i) = -5 * ScaledDen(i)) => out[i] = -3

\* C10's case: the scale was omitted, the array is not all zeros, and an
\* element's negative product is not an integer.
C10_Witness ==
    /\ QuantizeEnded
    /\ ~call.scale.given
    /\ \E i \in DOMAIN call.data :
          /\ ScaledNum(i) < 0
          /\ ScaledNum(i) % ScaledDen(i) # 0
          /\ ScaledNum(i) > -127 * ScaledDen(i)
          /\ ret.value.quantized[i] * ScaledDen(i) < ScaledNum(i)

\* A dequantize_from_int8 call on the result of quantize_to_int8 has ended.
DequantizeEnded == pc = "returned" /\ call.op = "dequantize"

\* Element i of the round trip is one the claim covers: the scale is positive
\* and |x * scale| <= 127.
AwayFromSaturation(i) ==
    LET x == call.data[i]
        scale == call.scale.value
    IN  /\ scale.num > 0
        /\ x.num * scale.num <= 127 * x.den * scale.den
        /\ x.num * scale.num >= -127 * x.den * scale.den

\* x * scale and result * scale of element i, in lowest terms.  For a positive
\* scale, |result - x| <= c / scale is |result * scale - x * scale| <= c.
ScaledInput(i) == RNorm(RMul(call.data[i], call.scale.value))

ScaledResult(i) == RNorm(RMul(ret.value[i], call.scale.value))

\* C11 as claimed: away from saturation, dequantize(quantize(x, scale), scale)
\* differs from x by at most half a quantization step, 1 / (2 * scale).
C11_RoundTripWithinHalfStep ==
    DequantizeEnded =>
       \A i \in DOMAIN call.data :
          AwayFromSaturation(i) =>
             LET p == ScaledInput(i)
                 r == ScaledResult(i)
                 d == p.num * r.den - r.num * p.den
             IN  2 * (IF d < 0 THEN -d ELSE d) <= p.den * r.den

\* C11 as amended: away from saturation, dequantize(quantize(x, scale), scale)
\* is not above x and is less than one whole quantization step below it:
\* 0 <= x - result < 1 / scale.
C11_RoundTripWithinOneStep ==
    DequantizeEnded =>
       /\ DOMAIN ret.value = DOMAIN call.data
       /\ \A i \in DOMAIN call.data :
             AwayFromSaturation(i) =>
                LET p == ScaledInput(i)
                    r == ScaledResult(i)
                    d == p.num * r.den - r.num * p.den
                IN  0 <= d /\ d < p.den * r.den

\* C11's case: a round trip away from saturation, under a scale other than 1,
\* whose error is more than half a step.
C11_Witness ==
    /\ DequantizeEnded
    /\ \E i \in DOMAIN call.data :
          /\ AwayFromSaturation(i)
          /\ call.scale.value.num # call.scale.value.den
          /\ LET p == ScaledInput(i)
                 r == ScaledResult(i)
             IN  2 * (p.num * r.den - r.num * p.den) > p.den * r.den

\* A bias of zeros for the layer.
WithoutBias(self) == [self EXCEPT !.bias = [o \in DOMAIN self.bias |-> 0]]

\* The exact sum s + bias is a value of int32.
SumFitsInt32(s, bias) ==
    IF s >= 0 THEN bias <= INT32_MAX - s ELSE bias >= INT32_MIN - s

\* C12 as claimed: in every forward call with input and weight elements in
\* [-127, 127], the accumulator of every output element, just before the
\* shift, is the exact integer sum of the products plus the bias, whatever
\* bias the layer holds: the sum never leaves int32 and nothing wraps.
C12_AccumulatorIsExactSum ==
    /\ ConvCallInContract =>
          LET accs == ConvAccumulators(layer, call.input)
          IN  \A idx \in DOMAIN accs :
                 LET s == ConvExactSum(WithoutBias(layer), call.input.data,
                                       idx[1], idx[2], idx[3], idx[4])
                     bias == layer.bias[idx[2]]
                 IN  SumFitsInt32(s, bias) /\ accs[idx] = s + bias
    /\ FcCallInContract =>
          LET accs == FcAccumulators(layer, call.input)
          IN  \A idx \in DOMAIN accs :
                 LET s == FcExactSum(WithoutBias(layer), call.input.data, idx[1], idx[2])
                     bias == layer.bias[idx[2]]
                 IN  SumFitsInt32(s, bias) /\ accs[idx] = s + bias

InLoopOrder(order, shape) ==
    \A i \in 1..Len(order) - 1 :
       FlatOffset(shape, order[i]) < FlatOffset(shape, order[i + 1])

\* C14: whatever the order in which the workers took the output elements and
\* however their steps interleaved, the tensor that the call returns is the
\* one the sequential loops return.
C14_AnyOrderGivesSequentialOutput ==
    (pc = "returned" /\ call.op = "forward") =>
       ret = IF layer.kind = "conv"
             THEN ConvForward(layer, call.input, call.output_q)
             ELSE FcForward(layer, call.input, call.output_q)

\* C14's case: a call returned after workers computed elements at the same
\* time and wrote them in another order than the loops', and the output holds
\* different values, not all of them saturated.
C14_Witness ==
    /\ pc = "returned" /\ call.op = "forward"
    /\ call.kernel.overlapped
    /\ Len(call.kernel.order) = 4
    /\ ~InLoopOrder(call.kernel.order, ret.value.data.shape)
    /\ \E i, j \in DOMAIN ret.value.data.data :
          /\ ret.value.data.data[i] # ret.value.data.data[j]
          /\ ret.value.data.data[i] \notin {-127, 0, 127}

====
